---- MODULE Spec2Model ----
(***************************************************************************)
(* State-machine model of midas_rs (src/midas/src/lib.rs): the count-min   *)
(* sketch rows, the edge and node sketches, the fixed-window detector      *)
(* Midas and the decayed detector MidasR.                                  *)
(*                                                                         *)
(* Numbers.  Int = u64 is modelled at its real width: a value is a         *)
(* little-endian sequence of limbs in base 2^15 without high zero limbs    *)
(* (<<>> is 0), and the wrapping operations reduce modulo 2^64.            *)
(* Float = f64 is modelled as NaN, +Inf, -Inf or a finite value            *)
(* s * (n/d) * 2^e with a sign s, two such naturals n and d and a binary   *)
(* exponent e.  As in IEEE 754 a finite result above f64::MAX becomes an   *)
(* infinity, one below the least subnormal becomes zero, and a sum         *)
(* absorbs an operand that is negligible against the other.  Rounding of   *)
(* the significand is not modelled otherwise: every counter of the model   *)
(* is a dyadic rational with a short significand, which f64 holds          *)
(* exactly, and a score is the exact value of its formula.                 *)
(***************************************************************************)
EXTENDS Integers, Sequences, FiniteSets, TLC

(***************************************************************************)
(* Natural numbers of arbitrary size                                       *)
(***************************************************************************)
Base == 2^15

RECURSIVE NatTrim(_)
NatTrim(x) ==
    IF x = <<>> THEN <<>>
    ELSE IF x[Len(x)] = 0 THEN NatTrim(SubSeq(x, 1, Len(x) - 1))
    ELSE x

RECURSIVE NatFromInt(_)
NatFromInt(n) ==
    IF n = 0 THEN <<>> ELSE <<n % Base>> \o NatFromInt(n \div Base)

NatZero == <<>>
NatOne == <<1>>

NatLimb(x, i) == IF i <= Len(x) THEN x[i] ELSE 0

\* the limbs of x + y from the i-th on; s is the sum of the i-th limbs and
\* the carry into them
RECURSIVE NatAddFrom(_, _, _, _)
NatAddFrom(x, y, i, s) ==
    IF i > Len(x) /\ i > Len(y)
    THEN (IF s = 0 THEN <<>> ELSE <<s>>)
    ELSE <<s % Base>>
            \o NatAddFrom(x, y, i + 1,
                          NatLimb(x, i + 1) + NatLimb(y, i + 1) + (s \div Base))

NatAdd(x, y) ==
    IF x = <<>> THEN y
    ELSE IF y = <<>> THEN x
    ELSE NatAddFrom(x, y, 1, x[1] + y[1])

\* x - y for x >= y, before the high zero limbs are removed
\* d is the difference of the i-th limbs less the borrow from below
RECURSIVE NatSubFrom(_, _, _, _)
NatSubFrom(x, y, i, d) ==
    IF i > Len(x) THEN <<>>
    ELSE <<(d + Base) % Base>>
            \o NatSubFrom(x, y, i + 1,
                          NatLimb(x, i + 1) - NatLimb(y, i + 1) - (IF d < 0 THEN 1 ELSE 0))

NatSub(x, y) == IF y = <<>> THEN x ELSE NatTrim(NatSubFrom(x, y, 1, x[1] - y[1]))

\* -1, 0, 1 as x < y, x = y, x > y
RECURSIVE NatCmpFrom(_, _, _)
NatCmpFrom(x, y, i) ==
    IF i = 0 THEN 0
    ELSE IF x[i] < y[i] THEN -1
    ELSE IF x[i] > y[i] THEN 1
    ELSE NatCmpFrom(x, y, i - 1)

NatCmp(x, y) ==
    IF Len(x) < Len(y) THEN -1
    ELSE IF Len(x) > Len(y) THEN 1
    ELSE NatCmpFrom(x, y, Len(x))

\* the limbs of x * k from the i-th on, for 0 <= k < Base; p is the i-th
\* limb times k plus the carry into it
RECURSIVE NatMulSmallFrom(_, _, _, _)
NatMulSmallFrom(x, k, i, p) ==
    IF i > Len(x)
    THEN (IF p = 0 THEN <<>> ELSE <<p>>)
    ELSE <<p % Base>>
            \o NatMulSmallFrom(x, k, i + 1, NatLimb(x, i + 1) * k + (p \div Base))

NatMulSmall(x, k) ==
    IF k = 0 \/ x = <<>> THEN <<>>
    ELSE IF k = 1 THEN x
    ELSE NatMulSmallFrom(x, k, 1, x[1] * k)

NatShift(x) == IF x = <<>> THEN <<>> ELSE <<0>> \o x

RECURSIVE NatMulFrom(_, _, _)
NatMulFrom(x, y, j) ==
    IF j > Len(y) THEN <<>>
    ELSE NatAdd(NatMulSmall(x, y[j]), NatShift(NatMulFrom(x, y, j + 1)))

NatMul(x, y) ==
    IF x = <<>> \/ y = <<>> THEN <<>>
    ELSE IF y = <<1>> THEN x
    ELSE IF x = <<1>> THEN y
    ELSE NatMulFrom(x, y, 1)

\* x mod k for 0 < k < Base
RECURSIVE NatModSmallFrom(_, _, _, _)
NatModSmallFrom(x, k, i, r) ==
    IF i = 0 THEN r
    ELSE NatModSmallFrom(x, k, i - 1, (r * Base + x[i]) % k)

NatModSmall(x, k) == NatModSmallFrom(x, k, Len(x), 0)

\* x div k for 0 < k < Base, before the high zero limbs are removed
RECURSIVE NatDivSmallFrom(_, _, _, _)
NatDivSmallFrom(x, k, i, r) ==
    IF i = 0 THEN <<>>
    ELSE NatDivSmallFrom(x, k, i - 1, (r * Base + x[i]) % k)
            \o <<(r * Base + x[i]) \div k>>

NatDivSmall(x, k) == NatTrim(NatDivSmallFrom(x, k, Len(x), 0))

NatPow2(e) == [i \in 1..(e \div 15) |-> 0] \o <<2^(e % 15)>>

\* x * 2^bits
NatShl(x, bits) ==
    IF x = <<>> THEN <<>>
    ELSE [i \in 1..(bits \div 15) |-> 0] \o NatMulSmall(x, 2^(bits % 15))

Pow2_31 == NatPow2(31)
Pow2_53 == NatPow2(53)
Pow2_64 == NatPow2(64)

(***************************************************************************)
(* Int = u64 (lib.rs:31)                                                   *)
(***************************************************************************)
U64(n) == NatFromInt(n)

\* x mod 2^64: the low four limbs and the low four bits of the fifth
Wrap64(x) ==
    IF Len(x) <= 4 THEN x
    ELSE NatTrim(SubSeq(x, 1, 4) \o <<x[5] % 16>>)

U64_MAX == NatSub(Pow2_64, NatOne)

wrapping_mul(x, y) == Wrap64(NatMul(x, y))

wrapping_add(x, y) == Wrap64(NatAdd(x, y))

U64Lt(x, y) == NatCmp(x, y) < 0
U64Le(x, y) == NatCmp(x, y) <= 0

\* x - 1 in a build without overflow checks: 0 - 1 is 2^64 - 1
wrapping_pred(x) == IF x = <<>> THEN U64_MAX ELSE NatSub(x, NatOne)

\* `x as i32`: the low 32 bits of x read as a two's complement number
AsI32(x) ==
    IF NatLimb(x, 3) % 4 < 2
    THEN NatLimb(x, 1) + NatLimb(x, 2) * Base + (NatLimb(x, 3) % 4) * 2^30
    ELSE ((NatLimb(x, 1) + NatLimb(x, 2) * Base + ((NatLimb(x, 3) % 4) - 2) * 2^30)
            - 2^30) - 2^30

(***************************************************************************)
(* Float = f64 (lib.rs:32)                                                 *)
(***************************************************************************)
NaN == [k |-> "nan", s |-> 0, n |-> <<>>, d |-> <<1>>, e |-> 0]
Inf(sign) == [k |-> "inf", s |-> sign, n |-> <<>>, d |-> <<1>>, e |-> 0]
FZero == [k |-> "fin", s |-> 0, n |-> <<>>, d |-> <<1>>, e |-> 0]
FOne == [k |-> "fin", s |-> 1, n |-> <<1>>, d |-> <<1>>, e |-> 0]

\* std::f64::MAX = (2^53 - 1) * 2^971 (lib.rs:33)
FLOAT_MAX ==
    [k |-> "fin", s |-> 1, n |-> NatSub(Pow2_53, NatOne), d |-> <<1>>,
     e |-> 1024 - 53]

\* 2^-1075, half the least subnormal of f64: it and anything below round to 0
F64Tiny == [k |-> "fin", s |-> 1, n |-> <<1>>, d |-> <<1>>, e |-> 0 - (1022 + 53)]

IsNaN(x) == x.k = "nan"

\* A * 2^sh against B, for A, B > 0 and sh >= 0: -1, 0, 1
CmpShifted(A, B, sh) ==
    IF sh > 15 * (Len(B) + 1) THEN 1 ELSE NatCmp(NatShl(A, sh), B)

\* A * 2^de against B, for A, B > 0: -1, 0, 1
CmpScaled(A, B, de) ==
    (IF de >= 0 THEN 1 ELSE -1)
        * CmpShifted(IF de >= 0 THEN A ELSE B, IF de >= 0 THEN B ELSE A,
                     IF de >= 0 THEN de ELSE 0 - de)

\* |a| against |b| for finite nonzero a and b: -1, 0, 1 as |a| < |b|, =, >
FCmpMag(a, b) == CmpScaled(NatMul(a.n, b.d), NatMul(b.n, a.d), a.e - b.e)

\* an estimate of log2 |x| for finite nonzero x, right to within 15
FLog2(x) == 15 * (Len(x.n) - Len(x.d)) + x.e

\* x, in the range of f64: an infinity when it is above f64::MAX, zero
\* when it is at most half the least subnormal
FRange(x, l) ==
    IF l <= 1000 /\ l >= 0 - 1050 THEN x
    ELSE IF FCmpMag(x, IF l > 0 THEN FLOAT_MAX ELSE F64Tiny) > 0
    THEN (IF l > 0 THEN Inf(x.s) ELSE x)
    ELSE (IF l > 0 THEN x ELSE FZero)

FRanged(x) == FRange(x, FLog2(x))

\* the f64 of sign * (n/d) * 2^e
Fin(sign, n, d, e) ==
    IF n = <<>> \/ sign = 0 THEN FZero
    ELSE FRanged([k |-> "fin", s |-> sign, n |-> n, d |-> d, e |-> e])

FromInt(i) == Fin(1, NatFromInt(i), <<1>>, 0)

\* <<n, d>>: n and d with their common factors p removed
RECURSIVE NatCancel(_, _)
NatCancel(nd, p) ==
    IF NatModSmall(nd[1], p) = 0 /\ NatModSmall(nd[2], p) = 0
    THEN NatCancel(<<NatDivSmall(nd[1], p), NatDivSmall(nd[2], p)>>, p)
    ELSE nd

\* <<n, c>>: n > 0 with its factors of two removed, c the number removed
RECURSIVE NatOddPart(_, _)
NatOddPart(n, c) ==
    IF n[1] % 2 = 0 THEN NatOddPart(NatDivSmall(n, 2), c + 1)
    ELSE <<n, c>>

FOdd(x, on, od) == [x EXCEPT !.n = on[1], !.d = od[1], !.e = x.e + on[2] - od[2]]

FLowest(x, nd) == FOdd(x, NatOddPart(nd[1], 0), NatOddPart(nd[2], 0))

\* The one representation of a finite value whose denominator is a product
\* of 2, 3 and 5: n/d in lowest terms, n and d odd.  Counters are kept so.
FReduce(x) ==
    IF x.k # "fin" \/ x.s = 0 THEN x
    ELSE IF x.d = <<1>> /\ x.n[1] % 2 = 1 THEN x
    ELSE FLowest(x, IF x.d = <<1>> THEN <<x.n, x.d>>
                    ELSE NatCancel(NatCancel(<<x.n, x.d>>, 3), 5))

FNeg(x) == IF x.k = "nan" THEN x ELSE [x EXCEPT !.s = 0 - x.s]

\* -1, 0, 1 as a < b, a = b, a > b, for a and b not NaN
FCmp(a, b) ==
    IF a.k = "inf" /\ b.k = "inf"
    THEN (IF a.s = b.s THEN 0 ELSE IF a.s < b.s THEN -1 ELSE 1)
    ELSE IF a.k = "inf" THEN a.s
    ELSE IF b.k = "inf" THEN 0 - b.s
    ELSE IF a.s # b.s THEN (IF a.s < b.s THEN -1 ELSE 1)
    ELSE IF a.s = 0 \/ a = b THEN 0
    ELSE IF FLog2(a) - FLog2(b) > 2 * 15 THEN a.s
    ELSE IF FLog2(b) - FLog2(a) > 2 * 15 THEN 0 - a.s
    ELSE a.s * FCmpMag(a, b)

\* the comparisons of f64: every comparison with NaN is false
FLe(a, b) == ~IsNaN(a) /\ ~IsNaN(b) /\ FCmp(a, b) <= 0
FGe(a, b) == ~IsNaN(a) /\ ~IsNaN(b) /\ FCmp(a, b) >= 0
FLt(a, b) == ~IsNaN(a) /\ ~IsNaN(b) /\ FCmp(a, b) < 0
FEq(a, b) == ~IsNaN(a) /\ ~IsNaN(b) /\ FCmp(a, b) = 0

\* operands of a sum further apart than this many bits: the smaller one is
\* far below half an ulp of the larger (53 bits) and the sum is the larger
AbsorbBits == 4 * 53

\* sa * an / dd * 2^e + sb * bn / dd * 2^e, for an, bn > 0; c is NatCmp(an, bn)
FAddAligned(sa, an, sb, bn, dd, e, c) ==
    IF sa # sb /\ c = 0 THEN FZero
    ELSE Fin(IF sa = sb \/ c > 0 THEN sa ELSE sb,
             IF sa = sb THEN NatAdd(an, bn)
             ELSE NatSub(IF c > 0 THEN an ELSE bn, IF c > 0 THEN bn ELSE an),
             dd, e)

FAddNum(sa, an, sb, bn, dd, e) == FAddAligned(sa, an, sb, bn, dd, e, NatCmp(an, bn))

\* a + b for finite nonzero a and b of comparable size; e is the lesser exponent
FAddFin(a, b, e) ==
    FAddNum(a.s, NatShl(NatMul(a.n, b.d), a.e - e),
            b.s, NatShl(NatMul(b.n, a.d), b.e - e),
            NatMul(a.d, b.d), e)

FAdd(a, b) ==
    IF IsNaN(a) \/ IsNaN(b) THEN NaN
    ELSE IF a.k = "inf" /\ b.k = "inf"
    THEN (IF a.s = b.s THEN a ELSE NaN)
    ELSE IF a.k = "inf" THEN a
    ELSE IF b.k = "inf" THEN b
    ELSE IF a.s = 0 THEN b
    ELSE IF b.s = 0 THEN a
    ELSE IF FLog2(a) - FLog2(b) > AbsorbBits THEN a
    ELSE IF FLog2(b) - FLog2(a) > AbsorbBits THEN b
    ELSE FAddFin(a, b, IF a.e <= b.e THEN a.e ELSE b.e)

FSub(a, b) == FAdd(a, FNeg(b))

FMul(a, b) ==
    IF IsNaN(a) \/ IsNaN(b) THEN NaN
    ELSE IF a.k = "inf" \/ b.k = "inf"
    THEN (IF a.s = 0 \/ b.s = 0 THEN NaN ELSE Inf(a.s * b.s))
    ELSE IF a.s = 0 \/ b.s = 0 THEN FZero
    ELSE Fin(a.s * b.s, NatMul(a.n, b.n), NatMul(a.d, b.d), a.e + b.e)

\* zeros of the model are +0: x / 0 is +Inf or -Inf by the sign of x
FDiv(a, b) ==
    IF IsNaN(a) \/ IsNaN(b) THEN NaN
    ELSE IF a.k = "inf"
    THEN (IF b.k = "inf" THEN NaN ELSE Inf(IF b.s < 0 THEN 0 - a.s ELSE a.s))
    ELSE IF b.k = "inf" THEN FZero
    ELSE IF b.s = 0 THEN (IF a.s = 0 THEN NaN ELSE Inf(a.s))
    ELSE IF a.s = 0 THEN FZero
    ELSE Fin(a.s * b.s, NatMul(a.n, b.d), NatMul(a.d, b.n), a.e - b.e)

\* x >= 2^53 rounded to 53 bits, where 2^(52 + sh) <= x < 2^(53 + sh):
\* q and r are the quotient and the remainder of x by 2^sh
FRound(q, r, sh) ==
    [k |-> "fin", s |-> 1,
     n |-> IF r > 2^(sh - 1) \/ (r = 2^(sh - 1) /\ q[1] % 2 = 1)
           THEN NatAdd(q, NatOne) ELSE q,
     d |-> <<1>>, e |-> sh]

FRoundAt(x, sh) == FRound(NatDivSmall(x, 2^sh), NatModSmall(x, 2^sh), sh)

\* `x as Float` for x: u64: exact below 2^53, else rounded to 53 bits
\* (round to nearest, ties to even)
AsFloat(x) ==
    IF x = <<>> THEN FZero
    ELSE IF Len(x) <= 3 \/ NatCmp(x, Pow2_53) < 0
    THEN [k |-> "fin", s |-> 1, n |-> x, d |-> <<1>>, e |-> 0]
    ELSE FRoundAt(x, CHOOSE b \in 1..11 : NatCmp(x, NatPow2(53 + b)) < 0)

\* h * h, times x for an odd exponent
FPowStep(h, x, odd) == FMul(FMul(h, h), IF odd THEN x ELSE FOne)

RECURSIVE FPowNat(_, _)
FPowNat(x, m) ==
    IF m = 0 THEN FOne ELSE FPowStep(FPowNat(x, m \div 2), x, m % 2 = 1)

\* the power of a finite x; r is x to the size of the exponent
FPowSigned(r, neg) == IF neg THEN FDiv(FOne, r) ELSE r

\* beyond the exponents that are multiplied out: mag is the size of the
\* base against 1
FPowLimit(mag, neg, sgn) ==
    IF mag = 0 THEN [FOne EXCEPT !.s = sgn]
    ELSE IF (mag < 0) = neg THEN Inf(sgn)
    ELSE FZero

\* f64::powi(x, p) for p: i32.  Exponents up to PowiExact in size are
\* multiplied out; beyond that a base of size <= 1/2 has underflowed to 0
\* (its reciprocal has overflowed), and a base of size 1 stays 1.
PowiExact == 1024 + 53
powi(x, p) ==
    IF IsNaN(x) THEN NaN
    ELSE IF p = 0 THEN FOne
    ELSE IF x.k = "fin" /\ p <= PowiExact /\ p >= 0 - PowiExact
    THEN FPowSigned(FPowNat(x, IF p < 0 THEN 0 - p ELSE p), p < 0)
    ELSE FPowLimit(IF x.k = "inf" THEN 1 ELSE IF x.s = 0 THEN -1 ELSE FCmpMag(x, FOne),
                   p < 0, IF x.s < 0 /\ p % 2 = 1 THEN -1 ELSE 1)

\* f64::ln_1p.  The logarithm of a finite x > -1, x # 0 is kept as the
\* term ln(1 + x), a record of kind "ln1p" holding x: it has the sign of x
\* and two such terms are equal exactly when their arguments are.
ln_1p(x) ==
    IF IsNaN(x) THEN NaN
    ELSE IF x.k = "inf" THEN (IF x.s > 0 THEN x ELSE NaN)
    ELSE IF x.s = 0 THEN FZero
    ELSE IF x.s > 0 THEN [x EXCEPT !.k = "ln1p"]
    ELSE IF FCmp(x, [FOne EXCEPT !.s = -1]) < 0 THEN NaN
    ELSE IF x = [FOne EXCEPT !.s = -1] THEN Inf(-1)
    ELSE [x EXCEPT !.k = "ln1p"]

\* lib.rs:190
float_max(a, b) == IF FGe(a, b) THEN a ELSE b

\* lib.rs:198
float_min(a, b) == IF FLe(a, b) THEN a ELSE b

(***************************************************************************)
(* Rng (lib.rs:102-114).  SmallRng belongs to the rand crate: all the      *)
(* program relies on is that its output is a function of the seed and of   *)
(* the number of draws made.  The model has a family of such functions,    *)
(* one per value of g, and a run keeps the one its initial state chose.    *)
(***************************************************************************)
SmallRng_next_u32(g, seed, i) == (seed + 31 * i) * (2 * g + 1) + g * (i \div 2)

\* Rng::new seeded from the environment of the process as well
Rng_new_entropy(seed, entropy) == [seed |-> seed + entropy]

\* Rng::new: SmallRng::seed_from_u64(seed).  `entropy` stands for what the
\* process could read from its environment instead; the code does not.
Rng_new(seed, entropy) == [seed |-> seed]

\* Rng::rand after i - 1 earlier draws: next_u32() as Int
Rng_rand(g, rng, i) == SmallRng_next_u32(g, rng.seed, i)

(***************************************************************************)
(* Row (lib.rs:35-100): a, b and the counters; buckets[i + 1] is the       *)
(* counter at index i of the Vec.                                          *)
(***************************************************************************)
\* Row::new for the k-th row drawn from an Rng (buckets >= 2)
Row_new(buckets, g, rng, k) ==
    [a |-> U64((Rng_rand(g, rng, 2 * k - 1) % (buckets - 1)) + 1),
     b |-> U64(Rng_rand(g, rng, 2 * k) % buckets),
     buckets |-> [i \in 1..buckets |-> FZero]]

Row_num_buckets(row) == Len(row.buckets)

\* Row::hash with `*` and `+` on integers of no width
Row_hash_unbounded(row, m_value, source, dest) ==
    NatModSmall(
        NatAdd(NatMul(NatAdd(NatMul(m_value, dest), source), row.a), row.b),
        Row_num_buckets(row))

\* resid < 0 never holds of an unsigned resid: the result is resid
Row_hash(row, m_value, source, dest) ==
    NatModSmall(
        wrapping_add(
            wrapping_mul(
                wrapping_add(wrapping_mul(m_value, dest), source),
                row.a),
            row.b),
        Row_num_buckets(row))

\* Row::insert storing the weight instead of adding it
Row_insert_store(row, m_value, source, dest, weight) ==
    [row EXCEPT !.buckets[Row_hash(row, m_value, source, dest) + 1] = weight]

Row_insert(row, m_value, source, dest, weight) ==
    LET hash == Row_hash(row, m_value, source, dest)
    IN  [row EXCEPT !.buckets[hash + 1] = FReduce(FAdd(@, weight))]

Row_node_insert(row, a, weight) == Row_insert(row, NatZero, a, NatZero, weight)

Row_count(row, m_value, source, dest) ==
    row.buckets[Row_hash(row, m_value, source, dest) + 1]

Row_node_count(row, source) == Row_count(row, NatZero, source, NatZero)

Row_clear(row) ==
    [row EXCEPT !.buckets = [i \in 1..Len(row.buckets) |-> FZero]]

Row_lower(row, alpha) ==
    [row EXCEPT !.buckets =
        [i \in 1..Len(row.buckets) |-> FReduce(FMul(row.buckets[i], alpha))]]

\* .fold(FLOAT_MAX, float_min) over the values in order
RECURSIVE FoldMin(_, _, _)
FoldMin(acc, vals, i) ==
    IF i > Len(vals) THEN acc
    ELSE FoldMin(float_min(acc, vals[i]), vals, i + 1)

(***************************************************************************)
(* EdgeHash (lib.rs:116-155)                                               *)
(***************************************************************************)
EdgeHash_new(rows, buckets, m_value, g, seed, entropy) ==
    LET rng == Rng_new(seed, entropy)
    IN  [m_value |-> m_value,
         rows |-> [k \in 1..rows |-> Row_new(buckets, g, rng, k)]]

EdgeHash_lower(h, alpha) ==
    [h EXCEPT !.rows = [k \in 1..Len(h.rows) |-> Row_lower(h.rows[k], alpha)]]

EdgeHash_clear(h) ==
    [h EXCEPT !.rows = [k \in 1..Len(h.rows) |-> Row_clear(h.rows[k])]]

EdgeHash_insert(h, source, dest, weight) ==
    [h EXCEPT !.rows =
        [k \in 1..Len(h.rows) |->
            Row_insert(h.rows[k], h.m_value, source, dest, weight)]]

EdgeHash_count(h, source, dest) ==
    FoldMin(FLOAT_MAX,
            [k \in 1..Len(h.rows) |-> Row_count(h.rows[k], h.m_value, source, dest)],
            1)

(***************************************************************************)
(* NodeHash (lib.rs:157-188)                                               *)
(***************************************************************************)
NodeHash_new(rows, buckets, g, seed, entropy) ==
    LET rng == Rng_new(seed, entropy)
    IN  [rows |-> [k \in 1..rows |-> Row_new(buckets, g, rng, k)]]

NodeHash_count(h, source) ==
    FoldMin(FLOAT_MAX,
            [k \in 1..Len(h.rows) |-> Row_node_count(h.rows[k], source)],
            1)

NodeHash_lower(h, alpha) ==
    [h EXCEPT !.rows = [k \in 1..Len(h.rows) |-> Row_lower(h.rows[k], alpha)]]

NodeHash_insert(h, source, weight) ==
    [h EXCEPT !.rows =
        [k \in 1..Len(h.rows) |-> Row_node_insert(h.rows[k], source, weight)]]

(***************************************************************************)
(* Results.  A call returns [ok |-> TRUE, v |-> its Float] or panics,      *)
(* [ok |-> FALSE, v |-> NaN].  `checks` says whether the build has         *)
(* overflow checks (the debug profile) or wraps (the release profile).     *)
(***************************************************************************)
Ok(v) == [ok |-> TRUE, v |-> v]
Panic == [ok |-> FALSE, v |-> NaN]

\* the last expression of counts_to_anom (lib.rs:209); prev is current_time - 1
counts_to_anom_sum(sqerr, current_mean, prev) ==
    FAdd(FDiv(sqerr, current_mean),
         FDiv(sqerr, FMul(current_mean, float_max(FOne, AsFloat(prev)))))

\* counts_to_anom from `let sqerr` on (lib.rs:208)
counts_to_anom_mean(current_mean, current, prev) ==
    counts_to_anom_sum(powi(float_max(FZero, FSub(current, current_mean)), 2),
                       current_mean, prev)

\* lib.rs:206; `current_time - 1` overflows when current_time is 0
counts_to_anom(total, current, current_time, checks) ==
    IF checks /\ current_time = NatZero THEN Panic
    ELSE Ok(counts_to_anom_mean(FDiv(total, AsFloat(current_time)), current,
                                wrapping_pred(current_time)))

(***************************************************************************)
(* MidasR (lib.rs:236-355)                                                 *)
(***************************************************************************)
MidasR_new(params, g, entropy) ==
    LET dumb_seed == 538
    IN  [current_time |-> NatZero,
         alpha |-> params.alpha,
         current_count |->
            EdgeHash_new(params.rows, params.buckets, params.m_value, g,
                         dumb_seed + 1, entropy),
         total_count |->
            EdgeHash_new(params.rows, params.buckets, params.m_value, g,
                         dumb_seed + 2, entropy),
         source_score |-> NodeHash_new(params.rows, params.buckets, g, dumb_seed + 3, entropy),
         dest_score |-> NodeHash_new(params.rows, params.buckets, g, dumb_seed + 4, entropy),
         source_total |-> NodeHash_new(params.rows, params.buckets, g, dumb_seed + 5, entropy),
         dest_total |-> NodeHash_new(params.rows, params.buckets, g, dumb_seed + 6, entropy)]

\* the last expression of MidasR::query (lib.rs:333-335)
MidasR_query_max(current_score, current_score_source, current_score_dest) ==
    IF ~current_score.ok \/ ~current_score_source.ok \/ ~current_score_dest.ok
    THEN Panic
    ELSE Ok(ln_1p(float_max(float_max(current_score_source.v, current_score_dest.v),
                            current_score.v)))

MidasR_query(self, source, dest, checks) ==
    MidasR_query_max(
        counts_to_anom(EdgeHash_count(self.total_count, source, dest),
                       EdgeHash_count(self.current_count, source, dest),
                       self.current_time, checks),
        counts_to_anom(NodeHash_count(self.source_total, source),
                       NodeHash_count(self.source_score, source),
                       self.current_time, checks),
        counts_to_anom(NodeHash_count(self.dest_total, dest),
                       NodeHash_count(self.dest_score, dest),
                       self.current_time, checks))

\* the decay of MidasR::insert applied to the total sketches as well
MidasR_lower_totals(self, total_decay, time) ==
    [self EXCEPT
        !.current_count = EdgeHash_lower(@, total_decay),
        !.total_count = EdgeHash_lower(@, total_decay),
        !.source_score = NodeHash_lower(@, total_decay),
        !.dest_score = NodeHash_lower(@, total_decay),
        !.source_total = NodeHash_lower(@, total_decay),
        !.dest_total = NodeHash_lower(@, total_decay),
        !.current_time = time]

\* lib.rs:296-300
MidasR_lower(self, total_decay, time) ==
    [self EXCEPT
        !.current_count = EdgeHash_lower(@, total_decay),
        !.source_score = NodeHash_lower(@, total_decay),
        !.dest_score = NodeHash_lower(@, total_decay),
        !.current_time = time]

\* the time advance of MidasR::insert (lib.rs:290-301)
MidasR_advance(self, time) ==
    IF U64Lt(self.current_time, time)
    THEN MidasR_lower(self, powi(self.alpha, AsI32(NatSub(time, self.current_time))), time)
    ELSE self

\* the six sketch inserts of MidasR::insert (lib.rs:303-309)
MidasR_add(self, source, dest) ==
    [self EXCEPT
        !.current_count = EdgeHash_insert(@, source, dest, FOne),
        !.total_count = EdgeHash_insert(@, source, dest, FOne),
        !.source_score = NodeHash_insert(@, source, FOne),
        !.dest_score = NodeHash_insert(@, dest, FOne),
        !.source_total = NodeHash_insert(@, source, FOne),
        !.dest_total = NodeHash_insert(@, dest, FOne)]

\* the end of MidasR::insert: self.query(source, dest) (lib.rs:311)
MidasR_insert_query(after, source, dest, checks) ==
    [self |-> after, ret |-> MidasR_query(after, source, dest, checks)]

\* MidasR::insert: [self |-> the detector after the call, ret |-> its result]
MidasR_insert(self, source, dest, time, checks) ==
    IF ~U64Le(self.current_time, time)
    THEN [self |-> self, ret |-> Panic]
    ELSE MidasR_insert_query(MidasR_add(MidasR_advance(self, time), source, dest),
                             source, dest, checks)

(***************************************************************************)
(* Midas (lib.rs:377-449)                                                  *)
(***************************************************************************)
Midas_new(params, g, entropy) ==
    LET dumb_seed == 39
    IN  [current_time |-> NatZero,
         current_count |->
            EdgeHash_new(params.rows, params.buckets, params.m_value, g,
                         dumb_seed + 1, entropy),
         total_count |->
            EdgeHash_new(params.rows, params.buckets, params.m_value, g,
                         dumb_seed + 2, entropy)]

\* the last expression of Midas::query (lib.rs:428); prev is current_time - 1
Midas_query_sum(sqerr, current_mean, prev) ==
    FAdd(FDiv(sqerr, current_mean), FDiv(sqerr, FMul(current_mean, AsFloat(prev))))

\* Midas::query with the error not squared
Midas_query_mean_signed(current_mean, current, prev) ==
    Midas_query_sum(FSub(current, current_mean), current_mean, prev)

\* Midas::query from `let sqerr` on (lib.rs:423)
Midas_query_mean(current_mean, current, prev) ==
    Midas_query_sum(powi(FSub(current, current_mean), 2), current_mean, prev)

\* Midas::query without the case of current_time = 1
Midas_query_always(self, source, dest, checks) ==
    IF checks /\ self.current_time = NatZero THEN Panic
    ELSE Ok(Midas_query_mean(
                FDiv(EdgeHash_count(self.total_count, source, dest),
                     AsFloat(self.current_time)),
                EdgeHash_count(self.current_count, source, dest),
                wrapping_pred(self.current_time)))

\* lib.rs:421; `current_time - 1` is computed when current_time is not 1
Midas_query(self, source, dest, checks) ==
    IF self.current_time = NatOne THEN Ok(FZero)
    ELSE IF checks /\ self.current_time = NatZero THEN Panic
    ELSE Ok(Midas_query_mean(
                FDiv(EdgeHash_count(self.total_count, source, dest),
                     AsFloat(self.current_time)),
                EdgeHash_count(self.current_count, source, dest),
                wrapping_pred(self.current_time)))

\* the time advance of Midas::insert without `self.current_time = time`
Midas_advance_stale(self, time) ==
    IF U64Lt(self.current_time, time)
    THEN [self EXCEPT !.current_count = EdgeHash_clear(@)]
    ELSE self

\* the time advance of Midas::insert without `self.current_count.clear()`
Midas_advance_unclearing(self, time) ==
    IF U64Lt(self.current_time, time)
    THEN [self EXCEPT !.current_time = time]
    ELSE self

\* the time advance of Midas::insert clearing at `time >= self.current_time`
Midas_advance_clearing_always(self, time) ==
    [self EXCEPT !.current_count = EdgeHash_clear(@), !.current_time = time]

\* the time advance of Midas::insert (lib.rs:410-413)
Midas_advance(self, time) ==
    IF U64Lt(self.current_time, time)
    THEN [self EXCEPT !.current_count = EdgeHash_clear(@), !.current_time = time]
    ELSE self

\* the two sketch inserts of Midas::insert (lib.rs:415-416)
Midas_add(self, source, dest) ==
    [self EXCEPT
        !.current_count = EdgeHash_insert(@, source, dest, FOne),
        !.total_count = EdgeHash_insert(@, source, dest, FOne)]

\* the end of Midas::insert returning the score of the source's self-loop
Midas_insert_query_other(after, source, dest, checks) ==
    [self |-> after, ret |-> Midas_query(after, source, source, checks)]

\* the end of Midas::insert: self.query(source, dest) (lib.rs:418)
Midas_insert_query(after, source, dest, checks) ==
    [self |-> after, ret |-> Midas_query(after, source, dest, checks)]

\* Midas::insert asserting after the sketches are written
Midas_insert_asserting_last(self, source, dest, time, checks) ==
    IF ~U64Le(self.current_time, time)
    THEN [self |-> Midas_add(Midas_advance(self, time), source, dest), ret |-> Panic]
    ELSE Midas_insert_query(Midas_add(Midas_advance(self, time), source, dest),
                            source, dest, checks)

\* Midas::insert: [self |-> the detector after the call, ret |-> its result]
Midas_insert(self, source, dest, time, checks) ==
    IF ~U64Le(self.current_time, time)
    THEN [self |-> self, ret |-> Panic]
    ELSE Midas_insert_query(Midas_add(Midas_advance(self, time), source, dest),
                            source, dest, checks)

(***************************************************************************)
(* The program: one detector, built by Midas::new or MidasR::new, and the  *)
(* calls a caller makes on it.  A panic ends the run.                      *)
(***************************************************************************)
VARIABLES
    variant,          \* "Midas" or "MidasR": the detector the caller built
    overflow_checks,  \* the build: TRUE panics on integer overflow, FALSE wraps
    smallrng,         \* which generator the rand crate's SmallRng is
    det,              \* the detector
    last,             \* the last call made and how it ended
    total_true,       \* per (source, dest): the inserts made (not in the program)
    window_true,      \* the same, of the inserts at current_time
    twin              \* a second detector built by the same call (TwinSpec)

vars == <<variant, overflow_checks, smallrng, det, last, total_true, window_true, twin>>

\* bounds of the model
MaxInserts == 2
MaxBuckets == 2
MaxGap == 2
NumGenerators == 1

\* lib.rs:25, lib.rs:27
NUM_ROWS == 2
M_VALUE == 773

Half == [k |-> "fin", s |-> 1, n |-> <<1>>, d |-> <<1>>, e |-> -1]

\* the inputs of the model
Sources == {U64(1), U64(2)}
Dests == {U64(1), U64(2)}
Keys == Sources \X Dests
Alphas == {Half}
Rows == {0, NUM_ROWS}
Buckets == 2..MaxBuckets
MValues == {U64(M_VALUE)}
Entropy == {0, 1}
\* gaps in time: 0..MaxGap ticks and 2^31 (as i32: -2^31)
SmallGaps == {U64(gap) : gap \in 0..MaxGap}
HugeGaps == {Pow2_31}

MidasParamsSet ==
    [rows : Rows, buckets : Buckets, m_value : MValues]

MidasRParamsSet ==
    [rows : Rows, buckets : Buckets, m_value : MValues, alpha : Alphas]

NoTwin == [on |-> FALSE]

NoCounts == [key \in Keys |-> 0]

Made(d) ==
    [op |-> "new", source |-> NatZero, dest |-> NatZero, time |-> NatZero,
     prev_time |-> d.current_time, ok |-> TRUE, v |-> FZero]

\* the parameters a caller may pass to the constructor of its detector
ParamsSet == IF variant = "Midas" THEN MidasParamsSet ELSE MidasRParamsSet

\* Midas::new / MidasR::new
New(params, entropy) ==
    IF variant = "Midas" THEN Midas_new(params, smallrng, entropy)
    ELSE MidasR_new(params, smallrng, entropy)

InitCommon ==
    /\ variant \in {"Midas", "MidasR"}
    /\ overflow_checks \in BOOLEAN
    /\ smallrng \in 1..NumGenerators
    /\ total_true = NoCounts
    /\ window_true = NoCounts

Init ==
    /\ InitCommon
    /\ \E params \in ParamsSet, entropy \in Entropy : det = New(params, entropy)
    /\ last = Made(det)
    /\ twin = NoTwin

\* the times a caller passes: one tick back, and the gaps ahead
TimesFrom(now) ==
    {NatAdd(now, gap) : gap \in SmallGaps}
        \cup (IF now = NatZero THEN {} ELSE {NatSub(now, NatOne)})
        \cup (IF U64Lt(now, Pow2_31) THEN {NatAdd(now, gap) : gap \in HugeGaps} ELSE {})

Inserted == total_true[<<U64(1), U64(1)>>] + total_true[<<U64(1), U64(2)>>]
            + total_true[<<U64(2), U64(1)>>] + total_true[<<U64(2), U64(2)>>]

Running == last.ok

Called(op, source, dest, time, r) ==
    [op |-> op, source |-> source, dest |-> dest, time |-> time,
     prev_time |-> det.current_time, ok |-> r.ok, v |-> r.v]

\* the counts of inserts after an insert that passed the assertion
Counted(source, dest, time) ==
    /\ total_true' = [total_true EXCEPT ![<<source, dest>>] = @ + 1]
    /\ window_true' =
          IF time = det.current_time
          THEN [window_true EXCEPT ![<<source, dest>>] = @ + 1]
          ELSE [NoCounts EXCEPT ![<<source, dest>>] = 1]

InsertStep(source, dest, time, r) ==
    /\ det' = r.self
    /\ last' = Called("insert", source, dest, time, r.ret)
    /\ IF U64Le(det.current_time, time)
       THEN Counted(source, dest, time)
       ELSE UNCHANGED <<total_true, window_true>>
    /\ UNCHANGED <<variant, overflow_checks, smallrng>>

\* a query that counts the pair it looks up as an event
QueryStep_counting(source, dest, r) ==
    /\ last' = Called("query", source, dest, det.current_time, r)
    /\ det' = [det EXCEPT !.total_count = EdgeHash_insert(@, source, dest, FOne)]
    /\ UNCHANGED <<variant, overflow_checks, smallrng, total_true, window_true, twin>>

\* a call of query: `&self`, nothing of the detector is written
QueryStep(source, dest, r) ==
    /\ last' = Called("query", source, dest, det.current_time, r)
    /\ UNCHANGED <<variant, overflow_checks, smallrng, det, total_true, window_true, twin>>

\* Midas::insert (lib.rs:407)
MidasInsert ==
    /\ variant = "Midas" /\ Running /\ ~twin.on /\ Inserted < MaxInserts
    /\ \E source \in Sources, dest \in Dests, time \in TimesFrom(det.current_time) :
          /\ InsertStep(source, dest, time,
                        Midas_insert(det, source, dest, time, overflow_checks))
          /\ UNCHANGED twin

\* Midas::query (lib.rs:421)
MidasQuery ==
    /\ variant = "Midas" /\ Running /\ ~twin.on
    /\ \E source \in Sources, dest \in Dests :
          QueryStep(source, dest, Midas_query(det, source, dest, overflow_checks))

\* MidasR::insert (lib.rs:287)
MidasRInsert ==
    /\ variant = "MidasR" /\ Running /\ ~twin.on /\ Inserted < MaxInserts
    /\ \E source \in Sources, dest \in Dests, time \in TimesFrom(det.current_time) :
          /\ InsertStep(source, dest, time,
                        MidasR_insert(det, source, dest, time, overflow_checks))
          /\ UNCHANGED twin

\* MidasR::query (lib.rs:314)
MidasRQuery ==
    /\ variant = "MidasR" /\ Running /\ ~twin.on
    /\ \E source \in Sources, dest \in Dests :
          QueryStep(source, dest, MidasR_query(det, source, dest, overflow_checks))

Next ==
    \/ MidasInsert
    \/ MidasQuery
    \/ MidasRInsert
    \/ MidasRQuery

Spec == Init /\ [][Next]_vars

(***************************************************************************)
(* Two detectors built by the same constructor call with the same          *)
(* parameters, in processes whose environments differ (entropy), and fed   *)
(* the same inserts.                                                       *)
(***************************************************************************)
Twin(d, r) == [on |-> TRUE, det |-> d, ok |-> r.ok, v |-> r.v]

TwinInit ==
    /\ InitCommon
    /\ \E params \in ParamsSet, entropy \in Entropy, twin_entropy \in Entropy :
          /\ det = New(params, entropy)
          /\ twin = Twin(New(params, twin_entropy), Ok(FZero))
    /\ last = Made(det)

TwinStep(r) == twin' = Twin(r.self, r.ret)

\* Midas::insert on both
TwinMidasInsert ==
    /\ variant = "Midas" /\ Running /\ twin.on /\ Inserted < MaxInserts
    /\ \E source \in Sources, dest \in Dests, time \in TimesFrom(det.current_time) :
          /\ InsertStep(source, dest, time,
                        Midas_insert(det, source, dest, time, overflow_checks))
          /\ TwinStep(Midas_insert(twin.det, source, dest, time, overflow_checks))

\* MidasR::insert on both
TwinMidasRInsert ==
    /\ variant = "MidasR" /\ Running /\ twin.on /\ Inserted < MaxInserts
    /\ \E source \in Sources, dest \in Dests, time \in TimesFrom(det.current_time) :
          /\ InsertStep(source, dest, time,
                        MidasR_insert(det, source, dest, time, overflow_checks))
          /\ TwinStep(MidasR_insert(twin.det, source, dest, time, overflow_checks))

TwinNext ==
    \/ TwinMidasInsert
    \/ TwinMidasRInsert

TwinSpec == TwinInit /\ [][TwinNext]_vars

(***************************************************************************)
(* The constructors called with any parameters: Row::new divides by        *)
(* buckets - 1 and by buckets, and is called once per row.                 *)
(***************************************************************************)
\* Row::new panics (lib.rs:44, 45): `buckets - 1` overflows when buckets is
\* 0 (a panic with overflow checks, 2^64 - 1 without), and a remainder by
\* zero panics in every build
Row_new_panics(buckets, checks) ==
    \/ buckets = 0 /\ checks
    \/ buckets = 1
    \/ buckets = 0

\* EdgeHash::new / NodeHash::new panic: (0..rows).map(Row::new) calls
\* Row::new once per row, and not at all when rows is 0
Hash_new_panics(rows, buckets, checks) ==
    \E k \in 1..rows : Row_new_panics(buckets, checks)

MidasParamsAny ==
    [rows : 0..NUM_ROWS, buckets : 0..MaxBuckets, m_value : MValues]

MidasRParamsAny ==
    [rows : 0..NUM_ROWS, buckets : 0..MaxBuckets, m_value : MValues, alpha : Alphas]

\* the caller holds the parameters and has not called the constructor yet
Asked(params, entropy) ==
    [op |-> "args", params |-> params, entropy |-> entropy, ok |-> TRUE]

ConstructInit ==
    /\ InitCommon
    /\ det = [built |-> FALSE]
    /\ \E params \in (IF variant = "Midas" THEN MidasParamsAny ELSE MidasRParamsAny),
          entropy \in Entropy :
          last = Asked(params, entropy)
    /\ twin = NoTwin

\* the constructor returns a detector or panics before it has one
ConstructStep ==
    /\ last.op = "args"
    /\ IF Hash_new_panics(last.params.rows, last.params.buckets, overflow_checks)
       THEN /\ det' = det
            /\ last' = [last EXCEPT !.op = "new", !.ok = FALSE]
       ELSE /\ det' = New(last.params, last.entropy)
            /\ last' = [last EXCEPT !.op = "new"]
    /\ UNCHANGED <<variant, overflow_checks, smallrng, total_true, window_true, twin>>

\* Midas::new (lib.rs:384)
MidasConstruct == variant = "Midas" /\ ConstructStep

\* MidasR::new (lib.rs:250)
MidasRConstruct == variant = "MidasR" /\ ConstructStep

ConstructNext ==
    \/ MidasConstruct
    \/ MidasRConstruct

ConstructSpec == ConstructInit /\ [][ConstructNext]_vars

(***************************************************************************)
(* Midas::iterate / MidasR::iterate (MidasIterator::midas / midas_r box    *)
(* them): `let mut midas = Self::new(params); data.map(move |datum|        *)
(* midas.insert(datum))`.  The input is lazy: each call of next() pulls    *)
(* one triple from data, or finds it ended.  Beside the iterator's         *)
(* detector (det) runs a detector built with the same parameters, fed the  *)
(* same triples by insert, one by one (twin).                              *)
(***************************************************************************)
\* the times of an input with non-decreasing times
TimesAhead(now) ==
    {NatAdd(now, gap) : gap \in SmallGaps}
        \cup (IF U64Lt(now, Pow2_31) THEN {NatAdd(now, gap) : gap \in HugeGaps} ELSE {})

\* next() of Midas::iterate when data.next() is Some((source, dest, time))
MidasIterate ==
    /\ variant = "Midas" /\ Running /\ twin.on /\ last.op # "end" /\ Inserted < MaxInserts
    /\ \E source \in Sources, dest \in Dests, time \in TimesAhead(det.current_time) :
          /\ InsertStep(source, dest, time,
                        Midas_insert(det, source, dest, time, overflow_checks))
          /\ TwinStep(Midas_insert(twin.det, source, dest, time, overflow_checks))

\* next() of MidasR::iterate when data.next() is Some((source, dest, time))
MidasRIterate ==
    /\ variant = "MidasR" /\ Running /\ twin.on /\ last.op # "end" /\ Inserted < MaxInserts
    /\ \E source \in Sources, dest \in Dests, time \in TimesAhead(det.current_time) :
          /\ InsertStep(source, dest, time,
                        MidasR_insert(det, source, dest, time, overflow_checks))
          /\ TwinStep(MidasR_insert(twin.det, source, dest, time, overflow_checks))

\* next() when data.next() is None: Map returns None, insert is not called
IterateEnd ==
    /\ Running /\ twin.on /\ last.op # "end"
    /\ last' = [last EXCEPT !.op = "end"]
    /\ UNCHANGED <<variant, overflow_checks, smallrng, det, total_true, window_true, twin>>

IterateNext ==
    \/ MidasIterate
    \/ MidasRIterate
    \/ IterateEnd

\* let mut midas = Self::new(params), and the detector beside it
IterateSpec == TwinInit /\ [][IterateNext]_vars

(***************************************************************************)
(* A Row on its own, called with arguments of the whole range of u64.      *)
(***************************************************************************)
\* the rows Row::new can return: a in [1, buckets - 1], b in [0, buckets)
RowsAny ==
    UNION {[a : {U64(a) : a \in 1..(buckets - 1)},
            b : {U64(b) : b \in 0..(buckets - 1)},
            buckets : {[i \in 1..buckets |-> FZero]}] : buckets \in 2..(MaxBuckets + 1)}

U64Any == {NatZero, NatAdd(NatPow2(63), NatOne), U64_MAX}

\* a call on the row: its arguments, the index it computed, the counter
\* it read or wrote, and the number of inserts so far
Hashed(op, m_value, source, dest, hash, v, n) ==
    [op |-> op, m_value |-> m_value, source |-> source, dest |-> dest,
     hash |-> hash, v |-> v, n |-> n, ok |-> TRUE]

RowInit ==
    /\ variant = "Row"
    /\ overflow_checks \in BOOLEAN
    /\ smallrng \in 1..NumGenerators
    /\ total_true = NoCounts
    /\ window_true = NoCounts
    /\ det \in RowsAny
    /\ last = Hashed("new", NatZero, NatZero, NatZero, 0, FZero, 0)
    /\ twin = NoTwin

\* Row::hash (lib.rs:50)
RowHash ==
    /\ variant = "Row"
    /\ \E m_value \in {U64(M_VALUE), U64_MAX}, source \in U64Any, dest \in U64Any :
          last' = Hashed("hash", m_value, source, dest,
                         Row_hash(det, m_value, source, dest), FZero, last.n)
    /\ det' = det
    /\ UNCHANGED <<variant, overflow_checks, smallrng, total_true, window_true, twin>>

\* Row::insert (lib.rs:72)
RowInsert ==
    /\ variant = "Row" /\ last.n < MaxInserts
    /\ \E m_value \in {U64(M_VALUE), U64_MAX}, source \in U64Any, dest \in U64Any :
          /\ det' = Row_insert(det, m_value, source, dest, FOne)
          /\ last' = Hashed("insert", m_value, source, dest,
                            Row_hash(det, m_value, source, dest),
                            Row_count(det', m_value, source, dest), last.n + 1)
    /\ UNCHANGED <<variant, overflow_checks, smallrng, total_true, window_true, twin>>

\* Row::count (lib.rs:81)
RowCount ==
    /\ variant = "Row"
    /\ \E m_value \in {U64(M_VALUE), U64_MAX}, source \in U64Any, dest \in U64Any :
          last' = Hashed("count", m_value, source, dest,
                         Row_hash(det, m_value, source, dest),
                         Row_count(det, m_value, source, dest), last.n)
    /\ det' = det
    /\ UNCHANGED <<variant, overflow_checks, smallrng, total_true, window_true, twin>>

RowNext ==
    \/ RowHash
    \/ RowInsert
    \/ RowCount

RowSpec == RowInit /\ [][RowNext]_vars

(***************************************************************************)
(* What the properties below speak of                                      *)
(***************************************************************************)
\* query(source, dest) on the detector d, in the build of the run
Query(d, source, dest) ==
    IF variant = "Midas" THEN Midas_query(d, source, dest, overflow_checks)
    ELSE MidasR_query(d, source, dest, overflow_checks)

\* the last call was an insert that moved current_time forward
Advanced == last.op = "insert" /\ U64Lt(last.prev_time, last.time)

\* the number of inserts made with this source, with this dest
SourceTrue(source) == total_true[<<source, U64(1)>>] + total_true[<<source, U64(2)>>]
DestTrue(dest) == total_true[<<U64(1), dest>>] + total_true[<<U64(2), dest>>]

\* the number of inserts made at current_time
InsertedNow == window_true[<<U64(1), U64(1)>>] + window_true[<<U64(1), U64(2)>>]
               + window_true[<<U64(2), U64(1)>>] + window_true[<<U64(2), U64(2)>>]

\* the sum of the counters of a row from the i-th on
RECURSIVE BucketsSum(_, _)
BucketsSum(row, i) ==
    IF i > Row_num_buckets(row) THEN FZero
    ELSE FAdd(row.buckets[i], BucketsSum(row, i + 1))

\* the two keys share a counter in every row of the edge sketch h
Collide(h, key, other) ==
    \A k \in 1..Len(h.rows) :
        Row_hash(h.rows[k], h.m_value, key[1], key[2])
            = Row_hash(h.rows[k], h.m_value, other[1], other[2])

\* alpha^k as f64 for a gap k: u64, the exponent not narrowed
AlphaPow(alpha, k) ==
    IF U64Le(k, U64(PowiExact)) THEN FPowNat(alpha, AsI32(k))
    ELSE FPowLimit(IF alpha.s = 0 THEN -1 ELSE FCmpMag(alpha, FOne), FALSE, 1)

(***************************************************************************)
(* C1.  insert((source, dest, time)) fails fatally when time is less than  *)
(* current_time() and returns a score whenever time >= current_time(),     *)
(* the first insert of a fresh detector at time 0 included.                *)
(***************************************************************************)
C1_MonotonicTime ==
    last.op = "insert" => (last.ok <=> U64Le(last.prev_time, last.time))

(***************************************************************************)
(* C2.  current_time() is 0 after construction and never decreases over    *)
(* insert and query calls; after an insert that returns, it is the time    *)
(* that was inserted.                                                      *)
(***************************************************************************)
C2_TimeMonotone ==
    /\ [](last.op = "new" => det.current_time = NatZero)
    /\ [][/\ U64Le(det.current_time, det'.current_time)
          /\ (last'.op = "insert" /\ last'.ok) => det'.current_time = last'.time]_vars

\* an insert after another has returned and moved the time forward
C2_Witness == Advanced /\ last.ok /\ Inserted = 2 /\ last.prev_time # NatZero

(***************************************************************************)
(* C3.  query(source, dest) changes neither current_time nor any counter   *)
(* of any sketch, and a query repeated with no insert in between returns   *)
(* what it returned before.                                                *)
(***************************************************************************)
C3_QueryReadOnly ==
    [][last'.op = "query" =>
          /\ det' = det
          /\ (last.op = "query" /\ last.source = last'.source /\ last.dest = last'.dest)
                => (last'.ok = last.ok /\ last'.v = last.v)]_vars

\* a query has returned a nonzero score on a detector that holds two events
C3_Witness == last.op = "query" /\ last.ok /\ Inserted = 2 /\ last.v # FZero

(***************************************************************************)
(* C4.  The value a successful insert((source, dest, time)) returns equals *)
(* the value query(source, dest) returns right after it.                   *)
(*   As stated, with the equality of floating-point numbers (the           *)
(* assert_eq! of the documented example): refuted, NaN is not equal to     *)
(* NaN.  As amended: the two results are the same value, both NaN          *)
(* included.                                                               *)
(***************************************************************************)
C4_InsertEqualsQuery ==
    (last.op = "insert" /\ last.ok) =>
        /\ Query(det, last.source, last.dest).ok
        /\ FEq(last.v, Query(det, last.source, last.dest).v)

\* C4, as amended: what a successful insert returns is what the query
\* right after it returns, NaN included
C4_InsertIsQuery ==
    (last.op = "insert" /\ last.ok) =>
        Query(det, last.source, last.dest) = Ok(last.v)

\* an insert has returned NaN
C4_Witness == last.op = "insert" /\ last.ok /\ IsNaN(last.v)

(***************************************************************************)
(* C5.  Count-min upper bound: the total edge sketch's estimate of every   *)
(* pair is at least the number of inserts of the pair and at least 0, and  *)
(* the total node sketches' estimates (MidasR) are at least the number of  *)
(* inserts with that source, with that dest.                               *)
(***************************************************************************)
C5_CountMinUpperBound ==
    /\ \A key \in Keys :
          /\ FGe(EdgeHash_count(det.total_count, key[1], key[2]),
                 FromInt(total_true[key]))
          /\ FGe(EdgeHash_count(det.total_count, key[1], key[2]), FZero)
    /\ variant = "MidasR" =>
          /\ \A source \in Sources :
                /\ FGe(NodeHash_count(det.source_total, source),
                       FromInt(SourceTrue(source)))
                /\ FGe(NodeHash_count(det.source_total, source), FZero)
          /\ \A dest \in Dests :
                /\ FGe(NodeHash_count(det.dest_total, dest), FromInt(DestTrue(dest)))
                /\ FGe(NodeHash_count(det.dest_total, dest), FZero)

\* a pair inserted once is estimated above 1 by a sketch that has rows:
\* another pair shares its counters
C5_Witness ==
    \E key \in Keys :
        /\ total_true[key] = 1
        /\ Len(det.total_count.rows) > 0
        /\ FLt(FOne, EdgeHash_count(det.total_count, key[1], key[2]))

(***************************************************************************)
(* C6.  Fixed-window reset (Midas): after an insert whose time is greater  *)
(* than current_time, every key with no insert in the new window has       *)
(* current-window count 0, and the total sketch's count of that key is     *)
(* what it was.                                                            *)
(*   As stated: refuted, a key that shares the counters of the inserted    *)
(* key is counted with it, and a sketch of no rows counts FLOAT_MAX.       *)
(*   As amended: after such an insert every counter of the current-window  *)
(* sketch is 0 but, in each row, the one of the inserted key, which is 1;  *)
(* so in a sketch that has rows a key with no insert in the new window     *)
(* has current-window count 0 unless it shares a counter with the          *)
(* inserted key in every row, and then 1; the total sketch's count of the  *)
(* key is at least what it was.                                            *)
(***************************************************************************)
C6_FixedWindowReset ==
    [][(variant = "Midas" /\ last'.op = "insert" /\ U64Lt(det.current_time, last'.time)) =>
          \A key \in Keys :
              window_true'[key] = 0 =>
                  /\ EdgeHash_count(det'.current_count, key[1], key[2]) = FZero
                  /\ EdgeHash_count(det'.total_count, key[1], key[2])
                        = EdgeHash_count(det.total_count, key[1], key[2])]_vars

\* C6, as amended: the current-window sketch holds the inserted event only,
\* a key without inserts counts 0 unless it shares the event's counters,
\* and the total count of no key has decreased
C6_ResetButCollisions ==
    [][(variant = "Midas" /\ last'.op = "insert" /\ U64Lt(det.current_time, last'.time)) =>
          /\ \A k \in 1..Len(det'.current_count.rows) :
                \A i \in 1..Len(det'.current_count.rows[k].buckets) :
                    det'.current_count.rows[k].buckets[i] =
                        IF i = Row_hash(det'.current_count.rows[k],
                                        det'.current_count.m_value,
                                        last'.source, last'.dest) + 1
                        THEN FOne ELSE FZero
          /\ \A key \in Keys :
                window_true'[key] = 0 =>
                    /\ Len(det'.current_count.rows) > 0 =>
                          EdgeHash_count(det'.current_count, key[1], key[2]) =
                              IF Collide(det'.current_count, key,
                                         <<last'.source, last'.dest>>)
                              THEN FOne ELSE FZero
                    /\ FGe(EdgeHash_count(det'.total_count, key[1], key[2]),
                           EdgeHash_count(det.total_count, key[1], key[2]))]_vars

\* time has moved past a window in which a key was inserted, and the key
\* has no insert in the new window
C6_Witness ==
    /\ variant = "Midas" /\ Advanced /\ last.ok
    /\ Len(det.current_count.rows) > 0
    /\ \E key \in Keys : total_true[key] = 1 /\ window_true[key] = 0

(***************************************************************************)
(* C7.  Decay (MidasR): an insert at a time k > 1 ticks after the last     *)
(* multiplies every counter of current_count, source_score and dest_score  *)
(* by alpha^k, k = time - current_time, before the weight of the new       *)
(* event is added.                                                         *)
(***************************************************************************)
C7_DecayExact ==
    [][(/\ variant = "MidasR" /\ last'.op = "insert"
        /\ U64Lt(NatAdd(det.current_time, NatOne), last'.time)) =>
          MidasR_advance(det, last'.time) =
              MidasR_lower(det,
                           AlphaPow(det.alpha, NatSub(last'.time, det.current_time)),
                           last'.time)]_vars

C9_ScoreNonNegative ==
    (last.op \in {"query", "insert"} /\ last.ok) => ~FLt(last.v, FZero)

\* Midas has returned a positive score for a key whose current-window
\* count is below its mean
C9_Witness ==
    /\ variant = "Midas" /\ last.op = "query" /\ last.ok
    /\ window_true[<<last.source, last.dest>>] = 0
    /\ total_true[<<last.source, last.dest>>] > 0
    /\ FLt(FZero, last.v)

(***************************************************************************)
(* C10.  Degenerate inputs do not crash: query(source, dest) while         *)
(* current_time is 0, or while the mean of the key is 0, returns a value   *)
(* (NaN and the infinities included).                                      *)
(***************************************************************************)
C10_DegenerateNoCrash == last.op = "query" => last.ok

(***************************************************************************)
(* C11.  Constructing either detector with buckets < 2 (0 or 1) fails      *)
(* fatally, for every number of rows, 0 included, and every m_value; no    *)
(* detector with a row of fewer than 2 buckets is returned.                *)
(*   Refuted for rows = 0: Row::new, the only place that fails, is not     *)
(* called, and the constructor returns a detector with no rows.            *)
(***************************************************************************)
C11_BucketsFatal ==
    /\ (last.op = "new" /\ last.params.buckets < 2) => ~last.ok
    /\ (last.op = "new" /\ last.ok) =>
          \A k \in 1..Len(det.total_count.rows) :
              Row_num_buckets(det.total_count.rows[k]) >= 2

(***************************************************************************)
(* C12.  For every finite input of triples with non-decreasing times, the  *)
(* iterator of Midas::iterate / MidasR::iterate yields exactly one score   *)
(* per triple, in order, the i-th being what the i-th insert returns on a  *)
(* fresh detector with the same parameters fed the same triples one by     *)
(* one; the output ends exactly when the input ends.                       *)
(*   Refuted: with integer overflow checks a triple at time 0 makes next() *)
(* panic (`current_time - 1`), and no score is yielded for it.             *)
(***************************************************************************)
C12_IterateIsInsert ==
    /\ [](last.op = "insert" => (last.ok /\ twin.ok /\ last.v = twin.v))
    /\ [][/\ last'.op = "insert" => Inserted' = Inserted + 1
          /\ last'.op = "end" => (Inserted' = Inserted /\ det' = det)]_vars

(***************************************************************************)
(* C13.  Fixed-window detector (Midas): whenever current_time is 1,        *)
(* query(source, dest) returns exactly 0, for every key and whatever the   *)
(* sketches hold; so every insert made with time = 1 returns 0.            *)
(***************************************************************************)
C13_TickOneIsZero ==
    variant = "Midas" =>
        /\ det.current_time = NatOne =>
              \A key \in Keys : Query(det, key[1], key[2]) = Ok(FZero)
        /\ (last.op = "query" /\ last.prev_time = NatOne) =>
              (last.ok /\ last.v = FZero)
        /\ (last.op = "insert" /\ last.time = NatOne /\ U64Le(last.prev_time, last.time)) =>
              (last.ok /\ last.v = FZero)

\* the second insert at time 1 has returned 0, of a key whose counters in
\* the two sketches are not 0
C13_Witness ==
    /\ variant = "Midas" /\ last.op = "insert" /\ last.ok
    /\ last.time = NatOne /\ last.prev_time = NatOne /\ Inserted = 2
    /\ Len(det.total_count.rows) > 0
    /\ FLt(FZero, EdgeHash_count(det.current_count, last.source, last.dest))
    /\ last.v = FZero

(***************************************************************************)
(* C14.  Row::hash returns an index in [0, buckets) for every m_value,     *)
(* source and dest of the 64-bit unsigned range: it is                     *)
(* ((m_value * dest + source) * a + b) mod buckets with every product and  *)
(* sum taken modulo 2^64, which is the exact value of the expression       *)
(* modulo 2^64; so insert and count index inside the counters of the row.  *)
(***************************************************************************)
C14_HashInRange ==
    last.op \in {"hash", "insert", "count"} =>
        /\ last.hash \in 0..(Row_num_buckets(det) - 1)
        /\ last.hash =
              NatModSmall(
                  Wrap64(NatAdd(NatMul(NatAdd(NatMul(last.m_value, last.dest),
                                              last.source),
                                       det.a),
                                det.b)),
                  Row_num_buckets(det))
        /\ last.op = "insert" => FLe(FOne, det.buckets[last.hash + 1])
        /\ last.op \in {"insert", "count"} => last.v = det.buckets[last.hash + 1]

\* an insert whose products overflowed 64 bits, in a row of 3 counters,
\* at an index that is not the exact value modulo 3
C14_Witness ==
    /\ last.op = "insert"
    /\ Row_num_buckets(det) = 3
    /\ U64Le(Pow2_64, NatMul(last.m_value, last.dest))
    /\ last.hash # NatModSmall(
                      NatAdd(NatMul(NatAdd(NatMul(last.m_value, last.dest),
                                           last.source),
                                    det.a),
                             det.b),
                      3)

(***************************************************************************)
(* C15.  Total sketches only accumulate: in both detectors the time        *)
(* advance of an insert (time > current_time) leaves every counter of      *)
(* total_count (and of source_total and dest_total in MidasR) as it was,   *)
(* and over every call no counter of a total sketch decreases.             *)
(***************************************************************************)
C15_TotalsAccumulate ==
    /\ [](\A time \in TimesFrom(det.current_time) :
            U64Lt(det.current_time, time) =>
                IF variant = "Midas"
                THEN Midas_advance(det, time).total_count = det.total_count
                ELSE /\ MidasR_advance(det, time).total_count = det.total_count
                     /\ MidasR_advance(det, time).source_total = det.source_total
                     /\ MidasR_advance(det, time).dest_total = det.dest_total)
    /\ [][\A k \in 1..Len(det.total_count.rows) :
             \A i \in 1..Row_num_buckets(det.total_count.rows[k]) :
                /\ FLe(det.total_count.rows[k].buckets[i],
                       det'.total_count.rows[k].buckets[i])
                /\ variant = "MidasR" =>
                      /\ FLe(det.source_total.rows[k].buckets[i],
                             det'.source_total.rows[k].buckets[i])
                      /\ FLe(det.dest_total.rows[k].buckets[i],
                             det'.dest_total.rows[k].buckets[i])]_vars

\* MidasR has decayed its current sketches on a time advance, after which
\* a key inserted before and after the advance has 2 in the total sketch
\* and less than 2 in the current one
C15_Witness ==
    /\ variant = "MidasR" /\ Advanced /\ last.ok /\ last.prev_time # NatZero
    /\ Len(det.total_count.rows) > 0
    /\ total_true[<<last.source, last.dest>>] = 2
    /\ FEq(EdgeHash_count(det.total_count, last.source, last.dest), FromInt(2))
    /\ FLt(EdgeHash_count(det.current_count, last.source, last.dest), FromInt(2))

(***************************************************************************)
(* C16.  Decayed detector clamp: MidasR squares max(0, current - mean), so *)
(* when current <= mean, with mean > 0, at the edge level, the source      *)
(* level and the dest level, query returns ln(1 + 0) = 0; in the fixed-    *)
(* window detector with current_time > 1, a current count strictly below   *)
(* the mean gives a strictly positive score: the signed error is squared.  *)
(***************************************************************************)
C16_ClampBelowMean ==
    \A key \in Keys :
        IF variant = "MidasR"
        THEN (/\ FLe(EdgeHash_count(det.current_count, key[1], key[2]),
                     FDiv(EdgeHash_count(det.total_count, key[1], key[2]),
                          AsFloat(det.current_time)))
              /\ FLt(FZero, FDiv(EdgeHash_count(det.total_count, key[1], key[2]),
                                 AsFloat(det.current_time)))
              /\ FLe(NodeHash_count(det.source_score, key[1]),
                     FDiv(NodeHash_count(det.source_total, key[1]),
                          AsFloat(det.current_time)))
              /\ FLt(FZero, FDiv(NodeHash_count(det.source_total, key[1]),
                                 AsFloat(det.current_time)))
              /\ FLe(NodeHash_count(det.dest_score, key[2]),
                     FDiv(NodeHash_count(det.dest_total, key[2]),
                          AsFloat(det.current_time)))
              /\ FLt(FZero, FDiv(NodeHash_count(det.dest_total, key[2]),
                                 AsFloat(det.current_time))))
             => (/\ Query(det, key[1], key[2]).ok
                 /\ FEq(Query(det, key[1], key[2]).v, FZero))
        ELSE (/\ U64Lt(NatOne, det.current_time)
              /\ FLt(EdgeHash_count(det.current_count, key[1], key[2]),
                     FDiv(EdgeHash_count(det.total_count, key[1], key[2]),
                          AsFloat(det.current_time))))
             => (/\ Query(det, key[1], key[2]).ok
                 /\ FLt(FZero, Query(det, key[1], key[2]).v))

(***************************************************************************)
(* C17.  A rejected insert has no effect: when insert((source, dest,       *)
(* time)) fails because time < current_time, current_time and every        *)
(* counter of every sketch are what they were before the call.             *)
(***************************************************************************)
C17_RejectedInsertNoEffect ==
    [][(last'.op = "insert" /\ U64Lt(last'.time, last'.prev_time)) =>
          (~last'.ok /\ det' = det)]_vars

\* an insert one tick back has been rejected by a detector that holds an
\* event in its sketches
C17_Witness ==
    /\ last.op = "insert" /\ ~last.ok /\ U64Lt(last.time, last.prev_time)
    /\ Inserted = 1
    /\ Len(det.total_count.rows) > 0
    /\ \E key \in Keys : FLt(FZero, EdgeHash_count(det.current_count, key[1], key[2]))

(***************************************************************************)
(* C18.  Window accounting in the fixed-window detector: after any         *)
(* sequence of successful inserts, the counters of every row of            *)
(* Midas.current_count sum to the number of inserts whose time is          *)
(* current_time, and those of every row of Midas.total_count to the        *)
(* number of inserts ever made; so inserts at one tick accumulate, and the *)
(* current-window estimate of a key never exceeds the number of inserts    *)
(* of the current tick.                                                    *)
(*   As stated: refuted, a sketch of no rows estimates FLOAT_MAX.  As      *)
(* amended: the estimate is bounded in a detector with at least one row.   *)
(***************************************************************************)
C18_WindowAccounting ==
    (variant = "Midas" /\ Running) =>
        /\ \A k \in 1..Len(det.current_count.rows) :
              /\ FEq(BucketsSum(det.current_count.rows[k], 1), FromInt(InsertedNow))
              /\ FEq(BucketsSum(det.total_count.rows[k], 1), FromInt(Inserted))
        /\ \A key \in Keys :
              FLe(EdgeHash_count(det.current_count, key[1], key[2]),
                  FromInt(InsertedNow))

\* C18, as amended
C18_WindowAccountingInRows ==
    (variant = "Midas" /\ Running) =>
        /\ \A k \in 1..Len(det.current_count.rows) :
              /\ FEq(BucketsSum(det.current_count.rows[k], 1), FromInt(InsertedNow))
              /\ FEq(BucketsSum(det.total_count.rows[k], 1), FromInt(Inserted))
        /\ Len(det.current_count.rows) > 0 =>
              \A key \in Keys :
                  FLe(EdgeHash_count(det.current_count, key[1], key[2]),
                      FromInt(InsertedNow))

\* two inserts of one key at one tick after the first: its current-window
\* estimate is 2
C18_Witness ==
    /\ variant = "Midas" /\ last.op = "insert" /\ last.ok
    /\ last.time = last.prev_time /\ last.time # NatZero
    /\ Len(det.current_count.rows) > 0
    /\ window_true[<<last.source, last.dest>>] = 2
    /\ FEq(EdgeHash_count(det.current_count, last.source, last.dest), FromInt(2))

(***************************************************************************)
(* C19.  Decay never amplifies: for alpha in (0, 1] and every gap          *)
(* time - current_time >= 1 of the 64-bit unsigned time type, gaps of 2^31 *)
(* and more included, the factor MidasR applies on a time advance lies in  *)
(* [0, 1], so the advance increases no counter of current_count,           *)
(* source_score or dest_score.                                             *)
(*   Refuted on a gap of 2^31: narrowed to i32 it is -2^31, and the factor *)
(* alpha^(-2^31) is +infinity for alpha < 1.                               *)
(***************************************************************************)
C19_DecayNeverAmplifies ==
    variant = "MidasR" =>
        \A time \in TimesFrom(det.current_time) :
            U64Lt(det.current_time, time) =>
                /\ FLe(FZero, powi(det.alpha, AsI32(NatSub(time, det.current_time))))
                /\ FLe(powi(det.alpha, AsI32(NatSub(time, det.current_time))), FOne)
                /\ \A k \in 1..Len(det.current_count.rows) :
                      \A i \in 1..Row_num_buckets(det.current_count.rows[k]) :
                          /\ FLe(MidasR_advance(det, time).current_count.rows[k].buckets[i],
                                 det.current_count.rows[k].buckets[i])
                          /\ FLe(MidasR_advance(det, time).source_score.rows[k].buckets[i],
                                 det.source_score.rows[k].buckets[i])
                          /\ FLe(MidasR_advance(det, time).dest_score.rows[k].buckets[i],
                                 det.dest_score.rows[k].buckets[i])

====
